---- MODULE Spec2Model ----
(***************************************************************************)
(* ThinkMesh orchestrator (thinkmesh_core/orchestration/orchestrator.py):  *)
(* agent registry, task queue, the queue consumer started by initialize(), *)
(* the seven routing strategies and the agent calls they make; and the     *)
(* CoAct-1 automation engine (core/engines/coact_engine.py): complexity    *)
(* analysis, strategy selection, the four execution strategies and the     *)
(* performance counters.                                                   *)
(*                                                                         *)
(* One action is one run of a coroutine between two suspension points of   *)
(* the asyncio event loop.  Scores are kept in hundredths (0.5 is 50), so  *)
(* +0.01 is +1 and -0.05 is -5.                                            *)
(***************************************************************************)
EXTENDS Integers, Sequences, FiniteSets, TLC

\* ---------------------------------------------------------------- bounds
MaxAgents == 2
MaxTasks == 2
MaxConsumers == 1
\* the larger registry of SpecPool
MaxPoolAgents == 6
MaxPoolTasks == 1

\* ------------------------------------------------------ program constants
DefaultPerformanceScore == 50
DefaultMaxLoad == 10
ScoreMax == 100
ScoreMin == 0
SuccessReward == 1
FailurePenalty == 5
ParallelFanout == 3
ConsensusMinAgents == 3
ConsensusFanout == 5
CompetitiveFanout == 3
CollaborativeFanout == 4

Strategies ==
    {"sequential", "parallel", "hierarchical", "consensus",
     "competitive", "collaborative", "adaptive"}

\* TaskPriority values: CRITICAL, NORMAL.
PriorityCritical == 1
PriorityNormal == 3

\* (priority, requirements['specializations'], requirements['skills'])
\* triples offered to submit_task; << >> is a requirements dict without
\* 'skills'.
TaskInputs ==
    { [priority |-> PriorityNormal, specializations |-> {},
       skills |-> << >>],
      [priority |-> PriorityCritical, specializations |-> {"executor"},
       skills |-> << >>] }

\* (specializations, capabilities) pairs offered to register_agent.  A
\* capabilities dict may leave out performance_score and max_load, and
\* register_agent takes whatever numbers it carries (1.2, -0.5, 0).
Profiles ==
    { [specializations |-> {"general"}, capabilities |-> << >>],
      [specializations |-> {"executor"},
       capabilities |-> [performance_score |-> 120, max_load |-> 1]],
      [specializations |-> {"general"},
       capabilities |-> [performance_score |-> -50, max_load |-> 0]] }


NoResult == [kind |-> "None"]
NotCalled == [kind |-> "not called"]

VARIABLES
    agents,           \* self.agents: agent_id -> AgentCapability
    agent_order,      \* insertion order of the self.agents dict
    tasks,            \* every Task object created by submit_task, by id
    active_tasks,     \* self.active_tasks (ids)
    completed_tasks,  \* self.completed_tasks (ids, append order)
    task_queue,       \* self.task_queue (ids, FIFO)
    strategy,         \* self.strategy
    running,          \* self._running
    consumers,        \* one _process_task_queue coroutine per initialize()
    calls,            \* agent calls created and not yet finished
    shutdown_pc,      \* position of the shutdown() coroutine
    hist,             \* per task: what routing did (observation only)
    consensus_in,     \* argument of a call of _achieve_consensus
    consensus_out,    \* what that call returned
    coact,            \* the CoAct1AutomationEngine object
    executions,       \* execute_task calls, by call number
    text_in,          \* argument of a call of analyze_task_complexity
    analysis_out,     \* what that call returned
    cascade_in,       \* what the three executors under _execute_adaptive do
    cascade_out       \* what _execute_adaptive returned

vars == <<agents, agent_order, tasks, active_tasks, completed_tasks,
          task_queue, strategy, running, consumers, calls, shutdown_pc,
          hist, consensus_in, consensus_out, coact, executions, text_in,
          analysis_out, cascade_in, cascade_out>>

aggregator == <<consensus_in, consensus_out>>

\* the automation engine and the arguments of its functions under test
engine == <<coact, executions>>
analyzer == <<text_in, analysis_out>>
cascade == <<cascade_in, cascade_out>>
orchestrator ==
    <<agents, agent_order, tasks, active_tasks, completed_tasks, task_queue,
      strategy, running, consumers, calls, shutdown_pc, hist>>

\* ------------------------------------------------------------- helpers
Min(a, b) == IF a < b THEN a ELSE b
Max(a, b) == IF a > b THEN a ELSE b

SeqToSet(s) == {s[i] : i \in 1..Len(s)}

\* s[:n]
Take(s, n) == SubSeq(s, 1, Min(n, Len(s)))

\* dict.get(key, default)
CapGet(caps, key, default) ==
    IF key \in DOMAIN caps THEN caps[key] ELSE default

\* AgentCapability(...) as register_agent builds it
NewAgentCapability(specializations, capabilities) ==
    [specializations |-> specializations,
     performance_score |->
         CapGet(capabilities, "performance_score", DefaultPerformanceScore),
     availability |-> TRUE,
     current_load |-> 0,
     max_load |-> CapGet(capabilities, "max_load", DefaultMaxLoad),
     skills |-> CapGet(capabilities, "skills", << >>)]

\* Task(...) as submit_task builds it
NewTask(priority, specializations, skills) ==
    [status |-> "pending",
     assigned_agents |-> << >>,
     result |-> NoResult,
     priority |-> priority,
     specializations |-> specializations,
     skills |-> skills]

\* What routing did with a task, kept for the properties only:
\*   strategy    self.strategy when _route_task read it ("none" before)
\*   via         the routing method that dispatched or failed the task
\*   writes      assignments made to task.assigned_agents
\*   ncalls      agent calls started for the task
\*   nraised     agent calls of the task that raised
\*   available   agents with availability and current_load < max_load
\*               when the task was routed
\*   load_before current_load of every agent when the task was dispatched
\*               (dropped once the task is terminal)
\*   restored    at the moment the status became terminal, every agent's
\*               current_load was its load_before
NewHist ==
    [strategy |-> "none", via |-> "none", writes |-> 0, ncalls |-> 0,
     nraised |-> 0, available |-> 0, load_before |-> << >>,
     restored |-> TRUE]

\* ExecutionStrategy
ExecutionStrategies == {"sequential", "parallel", "hybrid", "adaptive"}

\* CoAct1AutomationEngine.__init__.  A rate is kept as the fraction that
\* was computed: 0.0 is 0/1.
CoAct1AutomationEngine ==
    [is_initialized |-> FALSE,
     terminalbench_enabled |-> FALSE,
     total_tasks |-> 0,
     successful_tasks |-> 0,
     current_success_rate |-> [num |-> 0, den |-> 1],
     strategy_stats |->
         [s \in ExecutionStrategies |-> [used |-> 0, success |-> 0]],
     strategy_hint_source |-> FALSE,
     background_processors |-> 0]

\* no engine call has been made, no function of it is under test
EngineIdle ==
    /\ coact = CoAct1AutomationEngine
    /\ executions = << >>

AnalyzerIdle ==
    /\ text_in = [keywords |-> << >>, fillers |-> 0]
    /\ analysis_out = NotCalled

CascadeIdle ==
    /\ cascade_in = << >>
    /\ cascade_out = NotCalled

Init ==
    /\ EngineIdle
    /\ AnalyzerIdle
    /\ CascadeIdle
    /\ agents = << >>
    /\ agent_order = << >>
    /\ tasks = << >>
    /\ active_tasks = {}
    /\ completed_tasks = << >>
    /\ task_queue = << >>
    /\ strategy = "adaptive"
    /\ running = FALSE
    /\ consumers = << >>
    /\ calls = {}
    /\ shutdown_pc = "none"
    /\ hist = << >>
    /\ consensus_in = << >>
    /\ consensus_out = NotCalled

\* ------------------------------------------------------------ API calls
initialize ==
    /\ running' = TRUE
    /\ consumers' = Append(consumers, [pc |-> "get", task |-> 0, via |-> "none"])
    /\ UNCHANGED <<aggregator, engine, analyzer, cascade, agents, agent_order, tasks, active_tasks, completed_tasks,
                   task_queue, strategy, calls, shutdown_pc,
                   hist>>

register_agent(agent_id, specializations, capabilities) ==
    /\ agent_id \notin DOMAIN agents
    /\ agents' = [a \in DOMAIN agents \cup {agent_id} |->
                     IF a = agent_id
                     THEN NewAgentCapability(specializations, capabilities)
                     ELSE agents[a]]
    /\ agent_order' = Append(agent_order, agent_id)
    /\ UNCHANGED <<aggregator, engine, analyzer, cascade, tasks, active_tasks, completed_tasks, task_queue,
                   strategy, running, consumers, calls,
                   shutdown_pc, hist>>

submit_task(priority, specializations, skills) ==
    /\ LET task_id == Len(tasks) + 1 IN
        /\ tasks' = Append(tasks, NewTask(priority, specializations, skills))
        /\ hist' = Append(hist, NewHist)
        /\ active_tasks' = active_tasks \cup {task_id}
        /\ task_queue' = Append(task_queue, task_id)
    /\ UNCHANGED <<aggregator, engine, analyzer, cascade, agents, agent_order, completed_tasks, strategy, running,
                   consumers, calls, shutdown_pc>>

set_strategy(s) ==
    /\ strategy' = s
    /\ UNCHANGED <<aggregator, engine, analyzer, cascade, agents, agent_order, tasks, active_tasks, completed_tasks,
                   task_queue, running, consumers, calls,
                   shutdown_pc, hist>>

\* ------------------------------------------------------------- routing
\* a.performance_score * (1 - a.current_load / a.max_load), compared
\* exactly: for max_load > 0 the key of a exceeds the key of b exactly when
\* the cross-multiplied products below do.  _find_suitable_agents only
\* ranks agents with 0 <= current_load < max_load.
RankNum(a) == agents[a].performance_score
                  * (agents[a].max_load - agents[a].current_load)

RankGreater(a, b) ==
    RankNum(a) * agents[b].max_load > RankNum(b) * agents[a].max_load

RankEqual(a, b) ==
    RankNum(a) * agents[b].max_load = RankNum(b) * agents[a].max_load

\* the filter loop of _find_suitable_agents, in dict order
IsSuitable(a, required) ==
    /\ ~ (~ agents[a].availability
          \/ agents[a].current_load >= agents[a].max_load)
    /\ \/ required = {}
       \/ \E spec \in required : spec \in agents[a].specializations

RECURSIVE Filter(_, _)
Filter(s, required) ==
    IF s = << >> THEN << >>
    ELSE IF IsSuitable(Head(s), required)
         THEN <<Head(s)>> \o Filter(Tail(s), required)
         ELSE Filter(Tail(s), required)

\* list.sort(key=..., reverse=True): descending and stable, so an element
\* is preceded by those of greater key and by the earlier ones of equal key
SortByRank(s) ==
    LET n == Len(s)
        pos(i) == 1 + Cardinality({j \in 1..n :
                          \/ RankGreater(s[j], s[i])
                          \/ RankEqual(s[j], s[i]) /\ j < i})
    IN [k \in 1..n |-> s[CHOOSE i \in 1..n : pos(i) = k]]

_find_suitable_agents(t) ==
    SortByRank(Filter(agent_order, tasks[t].specializations))

\* TaskRouter._is_suitable: availability and specializations
_is_suitable(t, a) ==
    /\ agents[a].availability
    /\ \/ tasks[t].specializations = {}
       \/ \E spec \in tasks[t].specializations :
              spec \in agents[a].specializations

\* sorted(suitable, key=lambda a: a.performance_score, reverse=True):
\* descending and stable
SortByPerformance(s) ==
    LET n == Len(s)
        pos(i) == 1 + Cardinality({j \in 1..n :
                          \/ agents[s[j]].performance_score
                                 > agents[s[i]].performance_score
                          \/ /\ agents[s[j]].performance_score
                                    = agents[s[i]].performance_score
                             /\ j < i})
    IN [k \in 1..n |-> s[CHOOSE i \in 1..n : pos(i) = k]]

\* TaskRouter.route(task, agents) on the orchestrator's agents dict
route(t) ==
    SortByPerformance(SelectSeq(agent_order, LAMBDA a : _is_suitable(t, a)))

\* sum(agent.skills.get(skill, 0) * weight for skill, weight in
\* required_skills.items()), levels and weights in hundredths
RECURSIVE SkillSum(_, _, _)
SkillSum(skills, required_skills, todo) ==
    IF todo = {} THEN 0
    ELSE LET skill == CHOOSE x \in todo : TRUE IN
         CapGet(skills, skill, 0) * required_skills[skill]
             + SkillSum(skills, required_skills, todo \ {skill})

\* score_agent(a) * a.max_load, in a unit that depends on the task only:
\* with required skills the factor (1 + skill_match) is taken times
\* len(required_skills) * 100 * 100.  The comparison of two scores is exact
\* here; the floats of the code differ from it by roundings far smaller
\* than the gap between two different scores of such agents.
ScoreNum(a, t) ==
    LET required_skills == tasks[t].skills IN
    IF DOMAIN required_skills = {} THEN RankNum(a)
    ELSE RankNum(a)
             * (Cardinality(DOMAIN required_skills) * 100 * 100
                  + SkillSum(agents[a].skills, required_skills,
                             DOMAIN required_skills))

ScoreGreater(a, b, t) ==
    ScoreNum(a, t) * agents[b].max_load > ScoreNum(b, t) * agents[a].max_load

\* faulty variant of BestAgent: the skill match bonus is left out
BestAgent_IgnoresSkills(suitable, t) ==
    suitable[CHOOSE i \in 1..Len(suitable) :
        /\ \A j \in 1..Len(suitable) : ~ RankGreater(suitable[j], suitable[i])
        /\ \A j \in 1..(i - 1) : RankGreater(suitable[i], suitable[j])]

\* max(suitable_agents, key=score_agent): the first agent of greatest
\* score
BestAgent(suitable, t) ==
    suitable[CHOOSE i \in 1..Len(suitable) :
        /\ \A j \in 1..Len(suitable) :
               ~ ScoreGreater(suitable[j], suitable[i], t)
        /\ \A j \in 1..(i - 1) : ScoreGreater(suitable[i], suitable[j], t)]

\* next((a for a in self.agents.values() if 'coordinator' in ... or
\* 'general' in ...), None): position in agent_order, 0 for None
Coordinator ==
    LET hits == {i \in 1..Len(agent_order) :
                    \/ "coordinator" \in agents[agent_order[i]].specializations
                    \/ "general" \in agents[agent_order[i]].specializations}
    IN IF hits = {} THEN 0
       ELSE CHOOSE i \in hits : \A j \in hits : i <= j

\* What a routing method does up to its first suspension point:
\*   fail       no agent, task.status = "failed", return
\*   direct     assigned_agents written, "await self._execute_on_agent"
\*   gather     assigned_agents written, asyncio.gather of the calls
\*   wait       assigned_agents written, asyncio.wait of the calls
\* writes lists the values assigned to task.assigned_agents on the way.
Plan(via, how, selected) ==
    [via |-> via, how |-> how, selected |-> selected,
     writes |-> IF how = "fail" THEN << >> ELSE <<selected>>]

Last(s) == s[Len(s)]

\* faulty variant of QueueGet: the item is read and left in the queue
QueueGet_Peek(q) == [item |-> Head(q), rest |-> q]

\* faulty variant of QueueGet: a LifoQueue, the newest item first
QueueGet_Lifo(q) == [item |-> Last(q), rest |-> SubSeq(q, 1, Len(q) - 1)]

\* self.task_queue.get(): the oldest item leaves the queue
QueueGet(q) == [item |-> Head(q), rest |-> Tail(q)]

\* faulty variant of RoutingError: _route_task without its except clause, the
\* exception ends in the handler of _process_task_queue, which only logs
RoutingError_Unhandled(task) == task

\* the except clause of _route_task
RoutingError(task) == [task EXCEPT !.status = "failed"]

_sequential_routing(t) ==
    LET suitable_agents == _find_suitable_agents(t) IN
    IF suitable_agents = << >>
    THEN Plan("sequential", "fail", << >>)
    ELSE Plan("sequential", "direct", <<suitable_agents[1]>>)

\* faulty variant of _parallel_routing: one agent more than the limit
_parallel_routing_OneMore(t) ==
    LET suitable_agents == _find_suitable_agents(t) IN
    IF suitable_agents = << >>
    THEN Plan("parallel", "fail", << >>)
    ELSE Plan("parallel", "gather",
              Take(suitable_agents, ParallelFanout + 1))

_parallel_routing(t) ==
    LET suitable_agents == _find_suitable_agents(t) IN
    IF suitable_agents = << >>
    THEN Plan("parallel", "fail", << >>)
    ELSE Plan("parallel", "gather", Take(suitable_agents, ParallelFanout))

\* faulty variant of _consensus_routing: assigned_agents is written before the
\* test that falls back to _parallel_routing, which writes it again
_consensus_routing_EarlyWrite(t) ==
    LET suitable_agents == _find_suitable_agents(t)
        selected_agents == Take(suitable_agents, ConsensusFanout)
    IN IF Len(suitable_agents) < ConsensusMinAgents
       THEN [_parallel_routing(t) EXCEPT !.writes = <<selected_agents>> \o @]
       ELSE Plan("consensus", "gather", selected_agents)

_consensus_routing(t) ==
    LET suitable_agents == _find_suitable_agents(t) IN
    IF Len(suitable_agents) < ConsensusMinAgents
    THEN _parallel_routing(t)
    ELSE Plan("consensus", "gather", Take(suitable_agents, ConsensusFanout))

_adaptive_routing(t) ==
    LET suitable_agents == _find_suitable_agents(t) IN
    IF suitable_agents = << >>
    THEN Plan("adaptive", "fail", << >>)
    ELSE Plan("adaptive", "direct", <<BestAgent(suitable_agents, t)>>)

_hierarchical_routing(t) ==
    IF Coordinator # 0
    THEN Plan("hierarchical", "direct", <<agent_order[Coordinator]>>)
    ELSE _adaptive_routing(t)

_competitive_routing(t) ==
    LET suitable_agents == _find_suitable_agents(t) IN
    IF suitable_agents = << >>
    THEN Plan("competitive", "fail", << >>)
    ELSE Plan("competitive", "wait",
              Take(suitable_agents, CompetitiveFanout))

\* faulty variant of _collaborative_routing: the fan-out of consensus, five
_collaborative_routing_FanoutFive(t) ==
    LET suitable_agents == _find_suitable_agents(t) IN
    IF suitable_agents = << >>
    THEN Plan("collaborative", "fail", << >>)
    ELSE Plan("collaborative", "gather",
              Take(suitable_agents, ConsensusFanout))

_collaborative_routing(t) ==
    LET suitable_agents == _find_suitable_agents(t) IN
    IF suitable_agents = << >>
    THEN Plan("collaborative", "fail", << >>)
    ELSE Plan("collaborative", "gather",
              Take(suitable_agents, CollaborativeFanout))

\* the if/elif chain of _route_task
_route_task(t) ==
    IF strategy = "sequential" THEN _sequential_routing(t)
    ELSE IF strategy = "parallel" THEN _parallel_routing(t)
    ELSE IF strategy = "consensus" THEN _consensus_routing(t)
    ELSE IF strategy = "hierarchical" THEN _hierarchical_routing(t)
    ELSE IF strategy = "competitive" THEN _competitive_routing(t)
    ELSE IF strategy = "collaborative" THEN _collaborative_routing(t)
    ELSE _adaptive_routing(t)

\* ----------------------------------------------------- the queue consumer
Loads(ag) == [a \in DOMAIN ag |-> ag[a].current_load]

\* what _execute_on_agent returns
AgentResult(a, t) == [kind |-> "dict", agent_id |-> a, task_id |-> t]

\* "if task.result" of Python: the dicts built here are never empty
Truthy(r) == r.kind # "None"

\* agent.current_load += 1
LoadUp(ag, a) == [ag EXCEPT ![a].current_load = @ + 1]

\* the success path of _execute_on_agent after the agent call returned:
\* score update, then the finally clause
ExecuteSucceeded(ag, a) ==
    [ag EXCEPT ![a].performance_score = Min(ScoreMax, @ + SuccessReward),
               ![a].current_load = @ - 1]

\* faulty variant of ExecuteFailed: the load is given back on success only (no
\* finally clause)
ExecuteFailed_KeepsLoad(ag, a) ==
    [ag EXCEPT ![a].performance_score = Max(ScoreMin, @ - FailurePenalty)]

\* the except path of _execute_on_agent: penalty, re-raise, finally clause
ExecuteFailed(ag, a) ==
    [ag EXCEPT ![a].performance_score = Max(ScoreMin, @ - FailurePenalty),
               ![a].current_load = @ - 1]

\* faulty variant of BackInLoop: the loop is left after one task
BackInLoop_Exits == [pc |-> "exited", task |-> 0, via |-> "none"]

\* the consumer is back at "while self._running"
BackInLoop == [pc |-> IF running THEN "get" ELSE "exited",
               task |-> 0, via |-> "none"]

Awaiting(how, t, via) == [pc |-> how, task |-> t, via |-> via]

CallsOf(c) == {k \in calls : k.owner = c}

\* _complete_task: leave active_tasks, append to completed_tasks
_complete_task(t) ==
    /\ active_tasks' = active_tasks \ {t}
    /\ completed_tasks' = Append(completed_tasks, t)

Routed(h, plan) ==
    [h EXCEPT !.strategy = strategy, !.via = plan.via,
              !.writes = @ + Len(plan.writes),
              !.available = Cardinality({a \in DOMAIN agents :
                  /\ agents[a].availability
                  /\ agents[a].current_load < agents[a].max_load}),
              !.load_before = Loads(agents)]

\* the task's status becomes terminal while the agents are as in ag
Terminal(h, ag) ==
    [h EXCEPT !.load_before = << >>,
              !.restored = \A a \in DOMAIN h.load_before :
                               ag[a].current_load = h.load_before[a]]

\* queue.get() delivers the oldest task; a cancelled call of the previous
\* race is woken before the getter of this consumer runs
CanGet(c) ==
    /\ c \in DOMAIN consumers
    /\ consumers[c].pc = "get"
    /\ task_queue # << >>
    /\ \A k \in CallsOf(c) : k.st # "cancelling"

\* routing finds no agent: task.status = "failed", return
RouteFail(c) ==
    /\ CanGet(c)
    /\ LET t == QueueGet(task_queue).item
           plan == _route_task(t)
       IN /\ plan.how = "fail"
          /\ task_queue' = QueueGet(task_queue).rest
          /\ tasks' = [tasks EXCEPT ![t].status = "failed"]
          /\ consumers' = [consumers EXCEPT ![c] = BackInLoop]
          /\ hist' = [hist EXCEPT ![t] = Terminal(Routed(@, plan), agents)]
    /\ UNCHANGED <<aggregator, engine, analyzer, cascade, agents, agent_order, active_tasks, completed_tasks,
                   strategy, running, calls, shutdown_pc>>

\* sequential, hierarchical, adaptive: assigned_agents written, then
\* "await self._execute_on_agent(...)" runs up to the agent call
RouteDirect(c) ==
    /\ CanGet(c)
    /\ LET t == QueueGet(task_queue).item
           plan == _route_task(t)
           a == plan.selected[1]
       IN /\ plan.how = "direct"
          /\ task_queue' = QueueGet(task_queue).rest
          /\ tasks' = [tasks EXCEPT ![t].assigned_agents = Last(plan.writes)]
          /\ agents' = LoadUp(agents, a)
          /\ calls' = calls \cup
                 {[task |-> t, agent |-> a, owner |-> c, idx |-> 1,
                   st |-> "running"]}
          /\ consumers' = [consumers EXCEPT ![c] =
                               Awaiting("direct", t, plan.via)]
          /\ hist' = [hist EXCEPT ![t] =
                 [Routed(@, plan) EXCEPT !.ncalls = @ + 1]]
    /\ UNCHANGED <<aggregator, engine, analyzer, cascade, agent_order, active_tasks, completed_tasks, strategy,
                   running, shutdown_pc>>

\* parallel, consensus, collaborative (asyncio.gather) and competitive
\* (asyncio.wait): assigned_agents written, one call per selected agent
\* handed to the event loop, the consumer suspends
RouteFanout(c) ==
    /\ CanGet(c)
    /\ LET t == QueueGet(task_queue).item
           plan == _route_task(t)
       IN /\ plan.how \in {"gather", "wait"}
          /\ task_queue' = QueueGet(task_queue).rest
          /\ tasks' = [tasks EXCEPT ![t].assigned_agents = Last(plan.writes)]
          /\ calls' = calls \cup
                 {[task |-> t, agent |-> plan.selected[i], owner |-> c,
                   idx |-> i, st |-> "scheduled"] :
                      i \in 1..Len(plan.selected)}
          /\ consumers' = [consumers EXCEPT ![c] =
                               Awaiting(plan.how, t, plan.via)]
          /\ hist' = [hist EXCEPT ![t] = Routed(@, plan)]
    /\ UNCHANGED <<aggregator, engine, analyzer, cascade, agents, agent_order, active_tasks, completed_tasks,
                   strategy, running, shutdown_pc>>

\* asyncio.wait is handed coroutines.  Up to Python 3.10 it wraps them in
\* tasks (RouteFanout); from 3.11 on it raises TypeError, which _route_task
\* catches to set task.status = "failed".  setup.py asks for 3.8 or later,
\* so a competitive routing may take either course.
RouteTypeError(c) ==
    /\ CanGet(c)
    /\ LET t == QueueGet(task_queue).item
           plan == _route_task(t)
       IN /\ plan.how = "wait"
          /\ task_queue' = QueueGet(task_queue).rest
          /\ tasks' = [tasks EXCEPT ![t] =
                 RoutingError([@ EXCEPT !.assigned_agents = Last(plan.writes)])]
          /\ consumers' = [consumers EXCEPT ![c] = BackInLoop]
          /\ hist' = [hist EXCEPT ![t] = Terminal(Routed(@, plan), agents)]
    /\ UNCHANGED <<aggregator, engine, analyzer, cascade, agents, agent_order, active_tasks, completed_tasks,
                   strategy, running, calls, shutdown_pc>>

\* the directly awaited agent call returns: score, load, then the caller
\* stores the result, sets "completed" and calls _complete_task
DirectReturns(c) ==
    /\ c \in DOMAIN consumers
    /\ consumers[c].pc = "direct"
    /\ LET t == consumers[c].task
           k == CHOOSE k \in CallsOf(c) : k.task = t
       IN /\ agents' = ExecuteSucceeded(agents, k.agent)
          /\ calls' = calls \ {k}
          /\ tasks' = [tasks EXCEPT ![t].result = AgentResult(k.agent, <<t>>),
                                    ![t].status = "completed"]
          /\ _complete_task(t)
          /\ hist' = [hist EXCEPT ![t] = Terminal(@, agents')]
    /\ consumers' = [consumers EXCEPT ![c] = BackInLoop]
    /\ UNCHANGED <<aggregator, engine, analyzer, cascade, agent_order, task_queue, strategy, running,
                   shutdown_pc>>

\* the directly awaited agent call raises: penalty, load, the exception
\* leaves the routing method and _route_task sets "failed"
DirectRaises(c) ==
    /\ c \in DOMAIN consumers
    /\ consumers[c].pc = "direct"
    /\ LET t == consumers[c].task
           k == CHOOSE k \in CallsOf(c) : k.task = t
       IN /\ agents' = ExecuteFailed(agents, k.agent)
          /\ calls' = calls \ {k}
          /\ tasks' = [tasks EXCEPT ![t] = RoutingError(@)]
          /\ hist' = [hist EXCEPT ![t] =
                 Terminal([@ EXCEPT !.nraised = @ + 1], agents')]
    /\ consumers' = [consumers EXCEPT ![c] = BackInLoop]
    /\ UNCHANGED <<aggregator, engine, analyzer, cascade, agent_order, active_tasks, completed_tasks, task_queue,
                   strategy, running, shutdown_pc>>

\* ------------------------------------------------------ fanned-out calls
\* the event loop starts the calls handed to it, one after the other with
\* nothing in between: agent.current_load += 1 in each
StartCalls(c) ==
    /\ c \in DOMAIN consumers
    /\ consumers[c].pc \in {"gather", "wait"}
    /\ LET mine == {k \in CallsOf(c) : k.st = "scheduled"} IN
        /\ mine # {}
        /\ agents' = [a \in DOMAIN agents |->
               IF \E k \in mine : k.agent = a
               THEN [agents[a] EXCEPT !.current_load = @ + 1]
               ELSE agents[a]]
        /\ calls' = (calls \ mine) \cup
                        {[k EXCEPT !.st = "running"] : k \in mine}
        /\ hist' = [hist EXCEPT ![consumers[c].task].ncalls =
                                    @ + Cardinality(mine)]
    /\ UNCHANGED <<aggregator, engine, analyzer, cascade, agent_order, tasks, active_tasks, completed_tasks,
                   task_queue, strategy, running, consumers,
                   shutdown_pc>>

IsFannedOut(k) ==
    /\ k \in calls
    /\ k.st = "running"
    /\ consumers[k.owner].pc \in {"gather", "wait"}

\* a fanned-out agent call returns
CallReturns(k) ==
    /\ IsFannedOut(k)
    /\ agents' = ExecuteSucceeded(agents, k.agent)
    /\ calls' = (calls \ {k}) \cup {[k EXCEPT !.st = "ok"]}
    /\ UNCHANGED <<aggregator, engine, analyzer, cascade, agent_order, tasks, active_tasks, completed_tasks,
                   task_queue, strategy, running, consumers,
                   shutdown_pc, hist>>

\* a fanned-out agent call raises
CallRaises(k) ==
    /\ IsFannedOut(k)
    /\ agents' = ExecuteFailed(agents, k.agent)
    /\ calls' = (calls \ {k}) \cup {[k EXCEPT !.st = "failed"]}
    /\ hist' = [hist EXCEPT ![k.task].nraised = @ + 1]
    /\ UNCHANGED <<aggregator, engine, analyzer, cascade, agent_order, tasks, active_tasks, completed_tasks,
                   task_queue, strategy, running, consumers,
                   shutdown_pc>>

\* str(r).  The repr of a result dict names its agent and task, so it is
\* one-to-one on them; other values print their text, which two values of
\* different type can share (1 and "1").
Str(r) == IF r.kind = "dict" THEN <<"dict", r.agent_id, r.task_id>>
          ELSE <<r.text>>

\* Counter(str(r) for r in results): a dict of counts, its keys in the
\* order of their first occurrence
CounterAdd(counter, key) ==
    IF \E i \in 1..Len(counter) : counter[i].key = key
    THEN [i \in 1..Len(counter) |->
             IF counter[i].key = key
             THEN [counter[i] EXCEPT !.count = @ + 1]
             ELSE counter[i]]
    ELSE Append(counter, [key |-> key, count |-> 1])

RECURSIVE Counter(_)
Counter(results) ==
    IF results = << >> THEN << >>
    ELSE CounterAdd(Counter(SubSeq(results, 1, Len(results) - 1)),
                    Str(Last(results)))

\* faulty variant of MaxByCount: a later item of equal count replaces the best
RECURSIVE MaxByCount_LastWins(_, _)
MaxByCount_LastWins(items, best) ==
    IF items = << >> THEN best
    ELSE MaxByCount_LastWins(Tail(items),
             IF Head(items).count >= best.count THEN Head(items) ELSE best)

\* max(items, key=count): a later item replaces the best one only when
\* its count is strictly greater
RECURSIVE MaxByCount(_, _)
MaxByCount(items, best) ==
    IF items = << >> THEN best
    ELSE MaxByCount(Tail(items),
                    IF Head(items).count > best.count THEN Head(items)
                    ELSE best)

\* most_common(1)[0][0]: heapq.nlargest(1, items, key=count) is max()
MostCommon(counter) == MaxByCount(Tail(counter), Head(counter)).key

\* next(r for r in results if str(r) == most_common)
RECURSIVE FirstWithStr(_, _)
FirstWithStr(results, key) ==
    IF Str(Head(results)) = key THEN Head(results)
    ELSE FirstWithStr(Tail(results), key)

_achieve_consensus(results) ==
    IF results = << >> THEN NoResult
    ELSE FirstWithStr(results, MostCommon(Counter(results)))

_merge_results(results) ==
    [kind |-> "merged", results |-> results, count |-> Len(results)]

\* the results of gather that are no exceptions, in the order of the calls.
\* _create_subtasks numbers the subtasks of a collaborative task from 0.
ValidResults(c) ==
    LET mine == CallsOf(c)
        at(i) == CHOOSE k \in mine : k.idx = i
        ok == SelectSeq([i \in 1..Cardinality(mine) |-> i],
                        LAMBDA i : at(i).st = "ok")
    IN [j \in 1..Len(ok) |->
           AgentResult(at(ok[j]).agent,
               IF consumers[c].via = "collaborative"
               THEN <<consumers[c].task, ok[j] - 1>>
               ELSE <<consumers[c].task>>)]

\* task.result as the code after gather computes it
GatherResult(via, valid_results) ==
    IF valid_results = << >> THEN NoResult
    ELSE IF via = "parallel" THEN valid_results[1]
    ELSE IF via = "consensus" THEN _achieve_consensus(valid_results)
    ELSE _merge_results(valid_results)

\* faulty variant of GatherResume: gather is left as soon as one call is done
GatherResume_FirstDone(c) ==
    /\ c \in DOMAIN consumers
    /\ consumers[c].pc = "gather"
    /\ \E k \in CallsOf(c) : k.st \in {"ok", "failed"}
    /\ LET t == consumers[c].task
           result == GatherResult(consumers[c].via, ValidResults(c))
       IN /\ tasks' = [tasks EXCEPT
                 ![t].result = result,
                 ![t].status = IF Truthy(result) THEN "completed"
                               ELSE "failed"]
          /\ _complete_task(t)
          /\ hist' = [hist EXCEPT ![t] = Terminal(@, agents)]
    /\ calls' = calls \ CallsOf(c)
    /\ consumers' = [consumers EXCEPT ![c] = BackInLoop]
    /\ UNCHANGED <<aggregator, engine, analyzer, cascade, agents, agent_order, task_queue, strategy, running, shutdown_pc>>

\* gather is done when every call is: result, status, _complete_task
GatherResume(c) ==
    /\ c \in DOMAIN consumers
    /\ consumers[c].pc = "gather"
    /\ \A k \in CallsOf(c) : k.st \in {"ok", "failed"}
    /\ LET t == consumers[c].task
           result == GatherResult(consumers[c].via, ValidResults(c))
       IN /\ tasks' = [tasks EXCEPT
                 ![t].result = result,
                 ![t].status = IF Truthy(result) THEN "completed"
                               ELSE "failed"]
          /\ _complete_task(t)
          /\ hist' = [hist EXCEPT ![t] = Terminal(@, agents)]
    /\ calls' = calls \ CallsOf(c)
    /\ consumers' = [consumers EXCEPT ![c] = BackInLoop]
    /\ UNCHANGED <<aggregator, engine, analyzer, cascade, agents, agent_order, task_queue, strategy, running, shutdown_pc>>

\* asyncio.wait(FIRST_COMPLETED) is over once a call is done: every call
\* still pending is cancelled, then next(iter(done)).result() takes any of
\* the done ones (done is a set).  A result completes the task; an
\* exception leaves the method and _route_task sets "failed".
WaitResume(c, d) ==
    /\ c \in DOMAIN consumers
    /\ consumers[c].pc = "wait"
    /\ d \in CallsOf(c)
    /\ d.st \in {"ok", "failed"}
    /\ LET t == consumers[c].task
           pending == {k \in CallsOf(c) : k.st = "running"}
       IN /\ calls' = (calls \ CallsOf(c)) \cup
                          {[k EXCEPT !.st = "cancelling"] : k \in pending}
          /\ IF d.st = "ok"
             THEN /\ tasks' = [tasks EXCEPT
                         ![t].result = AgentResult(d.agent, <<t>>),
                         ![t].status = "completed"]
                  /\ _complete_task(t)
             ELSE /\ tasks' = [tasks EXCEPT ![t] = RoutingError(@)]
                  /\ UNCHANGED <<active_tasks, completed_tasks>>
          /\ hist' = [hist EXCEPT ![t] = Terminal(@, agents)]
    /\ consumers' = [consumers EXCEPT ![c] = BackInLoop]
    /\ UNCHANGED <<aggregator, engine, analyzer, cascade, agents, agent_order, task_queue, strategy, running, shutdown_pc>>

\* CancelledError reaches a cancelled call at its await: it is no
\* Exception, so only the finally clause runs
CancelDelivered(k) ==
    /\ k \in calls
    /\ k.st = "cancelling"
    /\ agents' = [agents EXCEPT ![k.agent].current_load = @ - 1]
    /\ calls' = calls \ {k}
    /\ UNCHANGED <<aggregator, engine, analyzer, cascade, agent_order, tasks, active_tasks, completed_tasks,
                   task_queue, strategy, running, consumers,
                   shutdown_pc, hist>>

\* wait_for times out, "continue", and "while self._running" ends the loop
ConsumerExit(c) ==
    /\ c \in DOMAIN consumers
    /\ consumers[c].pc = "get"
    /\ ~ running
    /\ consumers' = [consumers EXCEPT ![c].pc = "exited"]
    /\ UNCHANGED <<aggregator, engine, analyzer, cascade, agents, agent_order, tasks, active_tasks, completed_tasks,
                   task_queue, strategy, running, calls,
                   shutdown_pc, hist>>

\* shutdown() up to its first "while self.active_tasks" test
shutdown ==
    /\ running' = FALSE
    /\ shutdown_pc' = IF active_tasks = {} THEN "done" ELSE "waiting"
    /\ UNCHANGED <<aggregator, engine, analyzer, cascade, agents, agent_order, tasks, active_tasks, completed_tasks,
                   task_queue, strategy, consumers, calls, hist>>

\* shutdown() wakes from its sleep and finds active_tasks empty
ShutdownReturns ==
    /\ shutdown_pc = "waiting"
    /\ active_tasks = {}
    /\ shutdown_pc' = "done"
    /\ UNCHANGED <<aggregator, engine, analyzer, cascade, agents, agent_order, tasks, active_tasks, completed_tasks,
                   task_queue, strategy, running, consumers, calls, hist>>

\* get_task_status(task_id): the dict returned, None for an unknown id.
\* id, type and created_at never change and are left out.
get_task_status(task_id) ==
    IF task_id \in active_tasks
    THEN [status |-> tasks[task_id].status,
          priority |-> tasks[task_id].priority,
          assigned_agents |-> tasks[task_id].assigned_agents]
    ELSE IF \E i \in 1..Len(completed_tasks) : completed_tasks[i] = task_id
    THEN [status |-> tasks[task_id].status,
          priority |-> tasks[task_id].priority,
          result |-> tasks[task_id].result]
    ELSE NoResult

\* one call of _achieve_consensus
AchieveConsensus ==
    /\ consensus_out = NotCalled
    /\ consensus_out' = _achieve_consensus(consensus_in)
    /\ UNCHANGED <<consensus_in, engine, analyzer, cascade,
                   agents, agent_order, tasks, active_tasks,
                   completed_tasks, task_queue, strategy, running, consumers,
                   calls, shutdown_pc, hist>>

\* --------------------------------------------------------- specifications
\* The callers of the API, bounded: at most MaxConsumers calls of
\* initialize, MaxAgents registrations under fresh agent ids and MaxTasks
\* submissions; set_strategy at any time.
Callers ==
    \/ Len(consumers) < MaxConsumers /\ initialize
    \/ /\ Len(agent_order) < MaxAgents
       /\ \E p \in Profiles :
             register_agent(Len(agent_order) + 1, p.specializations,
                            p.capabilities)
    \/ /\ Len(tasks) < MaxTasks
       /\ \E i \in TaskInputs :
             submit_task(i.priority, i.specializations, i.skills)
    \/ \E s \in Strategies : set_strategy(s)

\* The event loop: the consumers and the agent calls.
EventLoop ==
    \/ \E c \in DOMAIN consumers : RouteFail(c)
    \/ \E c \in DOMAIN consumers : RouteDirect(c)
    \/ \E c \in DOMAIN consumers : RouteFanout(c)
    \/ \E c \in DOMAIN consumers : RouteTypeError(c)
    \/ \E c \in DOMAIN consumers : DirectReturns(c)
    \/ \E c \in DOMAIN consumers : DirectRaises(c)
    \/ \E c \in DOMAIN consumers : StartCalls(c)
    \/ \E k \in calls : CallReturns(k)
    \/ \E k \in calls : CallRaises(k)
    \/ \E c \in DOMAIN consumers : GatherResume(c)
    \/ \E c \in DOMAIN consumers : \E d \in calls : WaitResume(c, d)
    \/ \E k \in calls : CancelDelivered(k)

Next == Callers \/ EventLoop

Spec == Init /\ [][Next]_vars

\* The event loop runs every callback that is ready: a consumer that can
\* take a step takes it (ConsumerLoop), and an agent call that was started
\* returns, raises or takes its cancellation (AgentCalls).
ConsumerLoop ==
    \/ \E c \in DOMAIN consumers : RouteFail(c)
    \/ \E c \in DOMAIN consumers : RouteDirect(c)
    \/ \E c \in DOMAIN consumers : RouteFanout(c)
    \/ \E c \in DOMAIN consumers : RouteTypeError(c)
    \/ \E c \in DOMAIN consumers : StartCalls(c)
    \/ \E c \in DOMAIN consumers : GatherResume(c)
    \/ \E c \in DOMAIN consumers : \E d \in calls : WaitResume(c, d)

AgentCalls ==
    \/ \E c \in DOMAIN consumers : DirectReturns(c)
    \/ \E c \in DOMAIN consumers : DirectRaises(c)
    \/ \E k \in calls : CallReturns(k)
    \/ \E k \in calls : CallRaises(k)
    \/ \E k \in calls : CancelDelivered(k)

\* A small orchestrator for the progress of the queue: agents registered
\* with default capabilities, tasks without requirements, one consumer, any
\* strategy set at any time.
MaxLiveAgents == 2
MaxLiveTasks == 2

LiveCallers ==
    \/ Len(consumers) < MaxConsumers /\ initialize
    \/ /\ Len(agent_order) < MaxLiveAgents
       /\ register_agent(Len(agent_order) + 1, {"general"}, << >>)
    \/ /\ Len(tasks) < MaxLiveTasks
       /\ submit_task(PriorityNormal, {}, << >>)
    \/ \E s \in Strategies : set_strategy(s)

NextLive == LiveCallers \/ ConsumerLoop \/ AgentCalls

SpecLive ==
    Init /\ [][NextLive]_vars /\ WF_vars(ConsumerLoop) /\ WF_vars(AgentCalls)

\* the registrations offered under SpecPool: those that can take load
PoolProfiles ==
    { p \in Profiles :
          CapGet(p.capabilities, "max_load", DefaultMaxLoad) > 0 }

\* A registry of up to MaxPoolAgents agents that can take load, so that
\* every fan-out limit is exceeded by the number of suitable agents.
PoolCallers ==
    \/ Len(consumers) < MaxConsumers /\ initialize
    \/ /\ Len(agent_order) < MaxPoolAgents
       /\ \E p \in PoolProfiles :
             register_agent(Len(agent_order) + 1, p.specializations,
                            p.capabilities)
    \/ /\ Len(tasks) < MaxPoolTasks
       /\ \E i \in TaskInputs :
             submit_task(i.priority, i.specializations, i.skills)
    \/ \E s \in Strategies : set_strategy(s)

NextPool == PoolCallers \/ EventLoop

SpecPool == Init /\ [][NextPool]_vars

\* _achieve_consensus on every list of at most MaxResults results over
\* ConsensusValues: three texts, one of them ("1") the string form of two
\* different values.
MaxResults == 5

ConsensusValues ==
    { [kind |-> "str", text |-> "A"], [kind |-> "str", text |-> "B"],
      [kind |-> "str", text |-> "C"], [kind |-> "str", text |-> "1"],
      [kind |-> "int", text |-> "1"] }

ResultLists ==
    UNION { [1..n -> ConsensusValues] : n \in 0..MaxResults }

InitConsensus ==
    /\ EngineIdle
    /\ AnalyzerIdle
    /\ CascadeIdle
    /\ agents = << >>
    /\ agent_order = << >>
    /\ tasks = << >>
    /\ active_tasks = {}
    /\ completed_tasks = << >>
    /\ task_queue = << >>
    /\ strategy = "consensus"
    /\ running = FALSE
    /\ consumers = << >>
    /\ calls = {}
    /\ shutdown_pc = "none"
    /\ hist = << >>
    /\ consensus_in \in ResultLists
    /\ consensus_out = NotCalled

NextConsensus == AchieveConsensus

SpecConsensus == InitConsensus /\ [][NextConsensus]_vars

\* ------------------------------------------- the engine's complexity analyzer
\* A task description is kept as what analyze_task_complexity reads of it:
\* the words that are keys of complexity_keywords, in their order, and the
\* number of its other words.
MaxKeywords == 4
MaxFillers == 21

\* complexity_keywords, the weights in tenths
complexity_keywords ==
    [analyze |-> 12, integrate |-> 15, coordinate |-> 18, optimize |-> 20,
     synthesize |-> 22, orchestrate |-> 25, multiple |-> 13, complex |-> 20,
     advanced |-> 17, simultaneous |-> 23, parallel |-> 18,
     sequential |-> 12]

\* "if len(words) > 20: complexity_score += 1.0", the tier limits 2.0, 4.0
\* and 6.0, and the 3 of max(int(complexity_score * 2), 3); tenths again
LengthLimit == 20
LengthBonus == 10
SimpleLimit == 20
ModerateLimit == 40
ComplexLimit == 60
MinEstimatedSteps == 3

\* complexity_score is a Python float (an IEEE 754 double) and += rounds.
\* The double near t/10 is the pair [t, d] of value t/10 + d * u, where
\* u = 1 / (5 * 2^55): value / u = t * 2^54 + d is an integer for every
\* double met here, and only d and the residues of t * 2^54 are computed.
RECURSIVE Pow2Mod(_, _)
Pow2Mod(e, n) == IF e = 0 THEN 1 % n ELSE (2 * Pow2Mod(e - 1, n)) % n

\* the spacing, in units u, of the doubles of the binade of t/10 + d * u:
\* 2^-52 = 40 u in [1, 2), doubling with each binade up to [16, 32)
Ulp(t, d) ==
    IF t > 160 \/ (t = 160 /\ d >= 0) THEN 640
    ELSE IF t > 80 \/ (t = 80 /\ d >= 0) THEN 320
    ELSE IF t > 40 \/ (t = 40 /\ d >= 0) THEN 160
    ELSE IF t > 20 \/ (t = 20 /\ d >= 0) THEN 80
    ELSE 40

\* round to nearest, ties to even: the double of the real t/10 + d * u
RoundToDouble(t, d) ==
    IF t = 0 /\ d = 0 THEN [t |-> 0, d |-> 0]
    ELSE LET m == Ulp(t, d)
             n2 == (t * Pow2Mod(54, 2 * m) + d) % (2 * m)
             r == n2 % m
             odd == n2 >= m
         IN IF 2 * r < m \/ (2 * r = m /\ ~ odd)
            THEN [t |-> t, d |-> d - r]
            ELSE [t |-> t, d |-> d + (m - r)]

\* the float a literal such as 1.2 denotes
FloatLiteral(t) == RoundToDouble(t, 0)

\* a + b of two floats
FloatAdd(a, b) == RoundToDouble(a.t + b.t, a.d + b.d)

\* a <= t/10 for a limit that is a double itself (2.0, 4.0, 6.0)
FloatLeq(a, t) == a.t < t \/ (a.t = t /\ a.d <= 0)

\* int(a * 2): doubling is exact, int() cuts the fraction off
IntOfTwice(a) ==
    LET whole == (2 * a.t) \div 10 IN
    IF (2 * a.t) % 10 = 0 /\ a.d < 0 THEN whole - 1 ELSE whole

\* len(words)
WordCount(text) == Len(text.keywords) + text.fillers

\* the loop "for word in words": one += per keyword, in text order
RECURSIVE KeywordScore(_)
KeywordScore(keywords) ==
    IF keywords = << >> THEN [t |-> 0, d |-> 0]
    ELSE FloatAdd(KeywordScore(SubSeq(keywords, 1, Len(keywords) - 1)),
                  FloatLiteral(complexity_keywords[Last(keywords)]))

_recommend_strategy(complexity_level) ==
    CASE complexity_level = "simple" -> "sequential"
      [] complexity_level = "moderate" -> "parallel"
      [] complexity_level = "complex" -> "hybrid"
      [] complexity_level = "very_complex" -> "adaptive"

\* analyze_task_complexity: the dict returned, without estimated_time
analyze_task_complexity(text) ==
    LET lengthy == WordCount(text) > LengthLimit
        complexity_score ==
            IF lengthy
            THEN FloatAdd(KeywordScore(text.keywords),
                          FloatLiteral(LengthBonus))
            ELSE KeywordScore(text.keywords)
        complexity_level ==
            IF FloatLeq(complexity_score, SimpleLimit) THEN "simple"
            ELSE IF FloatLeq(complexity_score, ModerateLimit) THEN "moderate"
            ELSE IF FloatLeq(complexity_score, ComplexLimit) THEN "complex"
            ELSE "very_complex"
    IN [kind |-> "analysis",
        complexity_score |-> complexity_score,
        complexity_level |-> complexity_level,
        indicators |-> text.keywords \o
            (IF lengthy THEN <<"lengthy_description">> ELSE << >>),
        estimated_steps |->
            Max(IntOfTwice(complexity_score), MinEstimatedSteps),
        recommended_strategy |-> _recommend_strategy(complexity_level)]

\* one call of analyze_task_complexity
AnalyzeTaskComplexity ==
    /\ analysis_out = NotCalled
    /\ analysis_out' = analyze_task_complexity(text_in)
    /\ UNCHANGED <<text_in, aggregator, engine, cascade, orchestrator>>

\* the orchestrator after construction, nothing registered or submitted
OrchestratorIdle ==
    /\ agents = << >>
    /\ agent_order = << >>
    /\ tasks = << >>
    /\ active_tasks = {}
    /\ completed_tasks = << >>
    /\ task_queue = << >>
    /\ strategy = "adaptive"
    /\ running = FALSE
    /\ consumers = << >>
    /\ calls = {}
    /\ shutdown_pc = "none"
    /\ hist = << >>

AggregatorIdle ==
    /\ consensus_in = << >>
    /\ consensus_out = NotCalled

\* every description of at most MaxKeywords keywords, with no other word or
\* with enough of them to come near the length limit or pass it
Texts ==
    { [keywords |-> k, fillers |-> f] :
          k \in UNION { [1..n -> DOMAIN complexity_keywords] :
                            n \in 0..MaxKeywords },
          f \in {0} \cup ((LengthLimit - MaxKeywords)..MaxFillers) }

InitAnalyzer ==
    /\ OrchestratorIdle
    /\ AggregatorIdle
    /\ EngineIdle
    /\ CascadeIdle
    /\ text_in \in Texts
    /\ analysis_out = NotCalled

NextAnalyzer == AnalyzeTaskComplexity

SpecAnalyzer == InitAnalyzer /\ [][NextAnalyzer]_vars

\* -------------------------------------- the engine's ADAPTIVE strategy
\* _execute_adaptive awaits _execute_hybrid, _execute_parallel and
\* _execute_sequential in this order.  What each of the three does when it
\* is awaited is the input of the call: it raises, or it returns a
\* CoActResult (its success, strategy_used and steps_completed fields).
MaxStepsCompleted == 2

strategies_to_try == <<"hybrid", "parallel", "sequential">>

CoActResults(strategy_used) ==
    { [kind |-> "result", success |-> TRUE, strategy_used |-> strategy_used,
       steps_completed |-> MaxStepsCompleted, error_message |-> "none"] }
    \cup
    { [kind |-> "result", success |-> FALSE, strategy_used |-> strategy_used,
       steps_completed |-> n, error_message |-> "none"] :
          n \in 0..MaxStepsCompleted }

Raised == [kind |-> "raised"]

ExecutorOutcomes ==
    { o \in [1..Len(strategies_to_try) ->
                UNION { CoActResults(s) \cup {Raised} :
                            s \in ExecutionStrategies }] :
          \A i \in DOMAIN o :
              o[i] = Raised \/ o[i].strategy_used = strategies_to_try[i] }

\* last_result = None
NoLastResult == [kind |-> "none"]

\* the strategies awaited so far, and last_result
AdaptiveTried ==
    IF cascade_out.kind = "trying" THEN cascade_out.tried ELSE << >>

AdaptiveLastResult ==
    IF cascade_out.kind = "trying" THEN cascade_out.last_result
    ELSE NoLastResult

\* faulty variant of AdaptiveAttempt: a successful result is kept as
\* last_result and the loop goes on to the next strategy
AdaptiveAttempt_NoStop ==
    /\ cascade_out.kind \in {"not called", "trying"}
    /\ Len(AdaptiveTried) < Len(strategies_to_try)
    /\ LET i == Len(AdaptiveTried) + 1
           tried == Append(AdaptiveTried, strategies_to_try[i])
           result == cascade_in[i]
       IN cascade_out' =
              IF result = Raised
              THEN [kind |-> "trying", tried |-> tried,
                    last_result |-> AdaptiveLastResult]
              ELSE [kind |-> "trying", tried |-> tried,
                    last_result |-> result]
    /\ UNCHANGED <<cascade_in, aggregator, engine, analyzer, orchestrator>>

\* one iteration of "for strategy in strategies_to_try": the strategy is
\* awaited; a successful result is relabelled and returned, an unsuccessful
\* one becomes last_result, an exception is swallowed
AdaptiveAttempt ==
    /\ cascade_out.kind \in {"not called", "trying"}
    /\ Len(AdaptiveTried) < Len(strategies_to_try)
    /\ LET i == Len(AdaptiveTried) + 1
           tried == Append(AdaptiveTried, strategies_to_try[i])
           result == cascade_in[i]
       IN cascade_out' =
              IF result = Raised
              THEN [kind |-> "trying", tried |-> tried,
                    last_result |-> AdaptiveLastResult]
              ELSE IF result.success
              THEN [kind |-> "returned", tried |-> tried,
                    result |-> [result EXCEPT !.strategy_used = "adaptive"]]
              ELSE [kind |-> "trying", tried |-> tried,
                    last_result |-> result]
    /\ UNCHANGED <<cascade_in, aggregator, engine, analyzer, orchestrator>>

\* after the loop: last_result relabelled, or the "All strategies failed"
\* result when every strategy raised
AdaptiveExhausted ==
    /\ cascade_out.kind = "trying"
    /\ Len(cascade_out.tried) = Len(strategies_to_try)
    /\ cascade_out' =
           [kind |-> "returned", tried |-> cascade_out.tried,
            result |->
                IF cascade_out.last_result # NoLastResult
                THEN [cascade_out.last_result
                          EXCEPT !.strategy_used = "adaptive"]
                ELSE [kind |-> "result", success |-> FALSE,
                      strategy_used |-> "adaptive", steps_completed |-> 0,
                      error_message |-> "All strategies failed"]]
    /\ UNCHANGED <<cascade_in, aggregator, engine, analyzer, orchestrator>>

InitCascade ==
    /\ OrchestratorIdle
    /\ AggregatorIdle
    /\ EngineIdle
    /\ AnalyzerIdle
    /\ cascade_in \in ExecutorOutcomes
    /\ cascade_out = NotCalled

NextCascade ==
    \/ AdaptiveAttempt
    \/ AdaptiveExhausted

SpecCascade == InitCascade /\ [][NextCascade]_vars

\* ---------------------------------------------- ADAPTIVE routing alone
\* The orchestrator left at its default strategy, ADAPTIVE, with agents
\* that differ in performance_score and skills, tasks with and without
\* required skills, and a second consumer (initialize called twice), so
\* that a task is routed while another agent call is in flight.
MaxAdaptiveAgents == 3
MaxAdaptiveTasks == 2
MaxAdaptiveConsumers == 2

AdaptiveProfiles ==
    { [specializations |-> {"executor"},
       capabilities |-> [performance_score |-> 90, max_load |-> 2]],
      [specializations |-> {"executor"},
       capabilities |-> [performance_score |-> 50, max_load |-> 2,
                         skills |-> [python |-> 100]]],
      [specializations |-> {"general"},
       capabilities |-> [performance_score |-> 50, max_load |-> 1,
                         skills |-> [python |-> 50, sql |-> 100]]] }

AdaptiveTaskInputs ==
    { [priority |-> PriorityNormal, specializations |-> {"executor"},
       skills |-> << >>],
      [priority |-> PriorityNormal, specializations |-> {},
       skills |-> [python |-> 100]],
      [priority |-> PriorityNormal, specializations |-> {},
       skills |-> [python |-> 50, sql |-> 50]] }

AdaptiveCallers ==
    \/ Len(consumers) < MaxAdaptiveConsumers /\ initialize
    \/ /\ Len(agent_order) < MaxAdaptiveAgents
       /\ \E p \in AdaptiveProfiles :
             register_agent(Len(agent_order) + 1, p.specializations,
                            p.capabilities)
    \/ /\ Len(tasks) < MaxAdaptiveTasks
       /\ \E i \in AdaptiveTaskInputs :
             submit_task(i.priority, i.specializations, i.skills)

\* _adaptive_routing awaits one agent call or fails the task
AdaptiveEventLoop ==
    \/ \E c \in DOMAIN consumers : RouteFail(c)
    \/ \E c \in DOMAIN consumers : RouteDirect(c)
    \/ \E c \in DOMAIN consumers : DirectReturns(c)
    \/ \E c \in DOMAIN consumers : DirectRaises(c)

NextAdaptive == AdaptiveCallers \/ AdaptiveEventLoop

SpecAdaptive == Init /\ [][NextAdaptive]_vars

\* ------------------------------------------------------------ shutdown
\* The orchestrator left at ADAPTIVE, with shutdown() called once, after
\* any of the other calls: with tasks still queued, in flight, completed,
\* or failed during routing.
MaxShutdownAgents == 2
MaxShutdownTasks == 2

ShutdownCallers ==
    /\ shutdown_pc = "none"
    /\ \/ Len(consumers) < MaxConsumers /\ initialize
       \/ /\ Len(agent_order) < MaxShutdownAgents
          /\ register_agent(Len(agent_order) + 1, {"general"}, << >>)
       \/ /\ Len(tasks) < MaxShutdownTasks
          /\ submit_task(PriorityNormal, {}, << >>)
       \/ shutdown

ConsumerExits == \E c \in DOMAIN consumers : ConsumerExit(c)

NextShutdown ==
    \/ ShutdownCallers
    \/ AdaptiveEventLoop
    \/ ConsumerExits
    \/ ShutdownReturns

\* every coroutine that is ready runs: the consumer, the agent calls, and
\* shutdown() itself, which polls active_tasks every 0.1 s
SpecShutdown ==
    /\ Init
    /\ [][NextShutdown]_vars
    /\ WF_vars(AdaptiveEventLoop)
    /\ WF_vars(ConsumerExits)
    /\ WF_vars(ShutdownReturns)

\* ------------------------------------------ the engine's execute_task
\* execute_task runs without suspension from its entry to the first
\* asyncio.sleep of the strat (ExecuteTaskBegin), and again from the
\* last one to its return (ExecuteTaskEnd); calls may overlap in between.
\* In this repository TERMINALBENCH_AVAILABLE is False (the import of
\* Config from core.config fails) and the import of ThinkMeshAdapter raises
\* (core/engines/hrm_engine.py does not compile), so initialize leaves
\* terminalbench_enabled False and _strategy_hint_source None.
MaxExecutions == 3

\* task.description = None
NoDescription == [kind |-> "None"]

\* (task.description, len(context)) pairs offered to execute_task
EngineInputs ==
    { [description |-> [keywords |-> << >>, fillers |-> 4],
       context_size |-> 0],
      [description |-> [keywords |-> <<"optimize", "analyze">>, fillers |-> 3],
       context_size |-> 0],
      [description |-> [keywords |-> <<"optimize", "analyze">>, fillers |-> 3],
       context_size |-> 4],
      [description |-> [keywords |-> <<"orchestrate", "optimize">>,
                        fillers |-> 2],
       context_size |-> 0],
      [description |-> [keywords |-> <<"advanced", "simultaneous",
                                       "coordinate", "integrate">>,
                        fillers |-> 0],
       context_size |-> 0],
      [description |-> NoDescription, context_size |-> 0] }

\* initialize, from execute_task: the strategies, the learning system and
\* the pipeline are set up and a background processor is started
CoActInitialize(e) ==
    [e EXCEPT !.strategy_hint_source = FALSE,
              !.background_processors = @ + 1,
              !.is_initialized = TRUE]

\* ThinkMeshAdapter.recommend_strategy on a description of the analyzer's
\* keywords: only the HYBRID list has substrings of some of them
recommend_strategy(text) ==
    IF \E i \in 1..Len(text.keywords) :
           text.keywords[i] \in
               {"synthesize", "orchestrate", "multiple", "complex"}
    THEN "hybrid"
    ELSE "adaptive"

_select_execution_strategy(description, complexity_analysis, context_size, hint_source) ==
    LET complexity_level == complexity_analysis.complexity_level IN
    IF complexity_level = "simple" THEN "sequential"
    ELSE IF complexity_level = "moderate"
    THEN (IF context_size > 3 THEN "parallel" ELSE "sequential")
    ELSE IF complexity_level = "complex" THEN "hybrid"
    ELSE IF hint_source THEN recommend_strategy(description)
    ELSE "adaptive"

\* What the hashes of task_id + str(step) come to in one execution (str
\* hashes differ from process to process):
\*   fail_step  the first step (counted from 1, never the first) at which
\*              hash % 10 == 0 stops _execute_sequential; 0 for none
\*   truths     how many _execute_parallel_step calls returned True
\*   retries    how many steps of the second phase of _execute_hybrid met
\*              hash % 8 == 0
Hashes(strat, total_steps) ==
    { h \in [fail_step : {0} \cup 2..total_steps,
             truths : 0..total_steps,
             retries : 0..Max(total_steps - 3, 0)] :
          /\ strat # "sequential" => h.fail_step = 0
          /\ strat = "sequential" => h.truths = 0
          /\ strat \in {"hybrid", "adaptive"} =>
                 h.truths <= Min(3, total_steps)
          /\ strat \notin {"hybrid", "adaptive"} => h.retries = 0 }

\* A CoActResult; reported counts the steps that reported success and is
\* no field of the code, it is kept for the properties
_execute_sequential(total_steps, h) ==
    [kind |-> "result",
     success |-> h.fail_step = 0,
     strategy_used |-> "sequential",
     steps_completed |-> IF h.fail_step = 0 THEN total_steps ELSE h.fail_step,
     total_steps |-> total_steps,
     reported |-> IF h.fail_step = 0 THEN total_steps ELSE h.fail_step - 1]

\* every result of the gather that is no Exception is counted, and
\* _execute_parallel_step returns True or False without raising
_execute_parallel(total_steps, h) ==
    LET completed_steps == total_steps IN
    [kind |-> "result",
     success |-> completed_steps * 10 >= total_steps * 7,
     strategy_used |-> "parallel",
     steps_completed |-> completed_steps,
     total_steps |-> total_steps,
     reported |-> h.truths]

\* completed_steps in halves: the burst counted as in _execute_parallel,
\* 1 for every remaining step and 0.5 more for every retry
_execute_hybrid(total_steps, h) ==
    LET remaining_steps == Max(total_steps - 3, 0)
        halves == 2 * Min(3, total_steps) + 2 * remaining_steps + h.retries
    IN [kind |-> "result",
        success |-> halves * 10 >= total_steps * 12,
        strategy_used |-> "hybrid",
        steps_completed |-> halves \div 2,
        total_steps |-> total_steps,
        reported |-> h.truths + remaining_steps]

\* _execute_adaptive on the engine's own strategies: the loop of
\* AdaptiveAttempt and AdaptiveExhausted, none of the three raising
_execute_adaptive(total_steps, h) ==
    LET results == <<_execute_hybrid(total_steps, h),
                     _execute_parallel(total_steps, h),
                     _execute_sequential(total_steps, h)>>
        hits == {i \in 1..3 : results[i].success}
        chosen == IF hits = {} THEN 3
                  ELSE CHOOSE i \in hits : \A j \in hits : i <= j
    IN [results[chosen] EXCEPT !.strategy_used = "adaptive"]

\* strategy_func(task, context, complexity_analysis)
StrategyResult(strat, total_steps, h) ==
    CASE strat = "sequential" -> _execute_sequential(total_steps, h)
      [] strat = "parallel" -> _execute_parallel(total_steps, h)
      [] strat = "hybrid" -> _execute_hybrid(total_steps, h)
      [] strat = "adaptive" -> _execute_adaptive(total_steps, h)

\* faulty variant of _update_metrics: a success is counted twice in
\* successful_tasks as well
_update_metrics_CountsTwice(e, success, strat) ==
    IF success
    THEN [e EXCEPT !.successful_tasks = @ + 2,
                   !.strategy_stats[strat].success = @ + 1]
    ELSE e

_update_metrics(e, success, strat) ==
    IF success
    THEN [e EXCEPT !.successful_tasks = @ + 1,
                   !.strategy_stats[strat].success = @ + 1]
    ELSE e

\* the engine as execute_task finds it after "if not self.is_initialized:
\* await self.initialize()" and "self.total_tasks += 1"
Entered ==
    LET e == IF coact.is_initialized THEN coact ELSE CoActInitialize(coact)
    IN [e EXCEPT !.total_tasks = @ + 1]

\* execute_task up to the first sleep of the strategy: analysis, strategy
\* selection, "used" of _execute_with_strategy
ExecuteTaskBegin(input) ==
    /\ input.description # NoDescription
    /\ LET complexity_analysis == analyze_task_complexity(input.description)
           strat ==
               _select_execution_strategy(input.description,
                   complexity_analysis, input.context_size,
                   Entered.strategy_hint_source)
       IN /\ ~ Entered.terminalbench_enabled
          /\ coact' = [Entered EXCEPT !.strategy_stats[strat].used = @ + 1]
          /\ executions' = Append(executions,
                 [pc |-> "executing", strategy |-> strat,
                  total_steps |-> complexity_analysis.estimated_steps,
                  result |-> NoResult])
    /\ UNCHANGED <<aggregator, analyzer, cascade, orchestrator>>

\* execute_task with a description that is no string: the analysis raises
\* inside the try, the except clause runs _update_metrics(False,
\* SEQUENTIAL, ...) and raises CoActEngineError
ExecuteTaskRaises(input) ==
    /\ input.description = NoDescription
    /\ coact' = _update_metrics(Entered, FALSE, "sequential")
    /\ executions' = Append(executions,
           [pc |-> "raised", strategy |-> "none", total_steps |-> 0,
            result |-> NoResult])
    /\ UNCHANGED <<aggregator, analyzer, cascade, orchestrator>>

\* from the end of the strategy to the return of execute_task: "success"
\* of _execute_with_strategy, the learning system, _update_metrics with
\* result.strategy_used
ExecuteTaskEnd(n) ==
    /\ n \in DOMAIN executions
    /\ executions[n].pc = "executing"
    /\ \E h \in Hashes(executions[n].strategy, executions[n].total_steps) :
          LET strat == executions[n].strategy
              result == StrategyResult(strat, executions[n].total_steps, h)
              tracked == IF result.success
                         THEN [coact EXCEPT
                                   !.strategy_stats[strat].success = @ + 1]
                         ELSE coact
          IN /\ coact' = _update_metrics(tracked, result.success,
                                         result.strategy_used)
             /\ executions' = [executions EXCEPT ![n].pc = "returned",
                                                 ![n].result = result]
    /\ UNCHANGED <<aggregator, analyzer, cascade, orchestrator>>

\* _background_processor, once a second: _calculate_success_rate
BackgroundProcessor ==
    /\ coact.background_processors > 0
    /\ coact.total_tasks > 0
    /\ coact' = [coact EXCEPT !.current_success_rate =
                     [num |-> coact.successful_tasks,
                      den |-> coact.total_tasks]]
    /\ UNCHANGED <<executions, aggregator, analyzer, cascade, orchestrator>>

\* get_success_rate
get_success_rate == coact.current_success_rate

\* get_performance_metrics()["strategy_stats"][strategy]["success_rate"]
StrategySuccessRate(strat) ==
    [num |-> coact.strategy_stats[strat].success,
     den |-> Max(coact.strategy_stats[strat].used, 1)]

InitEngine ==
    /\ OrchestratorIdle
    /\ AggregatorIdle
    /\ AnalyzerIdle
    /\ CascadeIdle
    /\ EngineIdle

NextEngine ==
    \/ /\ Len(executions) < MaxExecutions
       /\ \E input \in EngineInputs : ExecuteTaskBegin(input)
    \/ /\ Len(executions) < MaxExecutions
       /\ \E input \in EngineInputs : ExecuteTaskRaises(input)
    \/ \E n \in DOMAIN executions : ExecuteTaskEnd(n)
    \/ BackgroundProcessor

SpecEngine == InitEngine /\ [][NextEngine]_vars

\* ---------------------------------------------------------------- claims
TerminalStatuses == {"completed", "failed"}

IsTerminal(t) == tasks[t].status \in TerminalStatuses

WasRouted(t) == hist[t].strategy # "none"

\* the calls that count in agent a's current_load: started, not finished
Counted(a) == {k \in calls : k.agent = a /\ k.st \in {"running", "cancelling"}}

\* C1: every registered agent has current_load <= max_load in every
\* reachable state.
LoadWithinMax ==
    \A a \in DOMAIN agents : agents[a].current_load <= agents[a].max_load

\* C2 as claimed: at the moment a task reaches a terminal status, every
\* agent's current_load equals its value just before the task was
\* dispatched, under every strategy.
LoadRestoredAtTerminal ==
    \A t \in DOMAIN tasks : IsTerminal(t) => hist[t].restored

\* C2 as amended: current_load of an agent is always the number of its
\* calls that have started and not finished; once a task is terminal none
\* of its calls is counted any more, except the calls a competitive race
\* has cancelled, which stay counted until the cancellation is delivered,
\* before the consumer of the race routes another task; with one consumer
\* and a strategy other than competitive the load at the terminal moment is
\* the load before dispatch.
NoLoadLeak ==
    /\ \A a \in DOMAIN agents :
           agents[a].current_load = Cardinality(Counted(a))
    /\ \A t \in DOMAIN tasks : IsTerminal(t) =>
           /\ \A k \in calls : k.task = t =>
                  k.st = "cancelling" /\ hist[t].via = "competitive"
           /\ (Len(consumers) <= 1 /\ hist[t].via # "competitive")
                  => hist[t].restored
    /\ \A c \in DOMAIN consumers : consumers[c].pc # "get" =>
           \A k \in CallsOf(c) : k.st # "cancelling"

\* C2 witness: two dispatch/complete cycles are over, the first a race
\* whose loser was still counted when the task completed, and every load
\* is back at 0.
NoLoadLeakWitness ==
    /\ Len(tasks) = 2
    /\ tasks[1].status = "completed" /\ tasks[2].status = "completed"
    /\ hist[1].via = "competitive" /\ ~ hist[1].restored
    /\ calls = {}
    /\ \A a \in DOMAIN agents : agents[a].current_load = 0

\* C3: every update of a performance_score is min(1.0, score + 0.01) or
\* max(0.0, score - 0.05) and leaves the score within [0, 1], whatever
\* score the agent was registered with.
ScoreUpdatesStayInRange ==
    [][\A a \in DOMAIN agents :
          agents'[a].performance_score # agents[a].performance_score =>
              /\ agents'[a].performance_score \in
                     {Min(ScoreMax, agents[a].performance_score + SuccessReward),
                      Max(ScoreMin, agents[a].performance_score - FailurePenalty)}
              /\ agents'[a].performance_score >= ScoreMin
              /\ agents'[a].performance_score <= ScoreMax]_vars

\* C4: once a task is completed or failed, no step changes its status,
\* result or assigned_agents, nor what get_task_status returns for it.
TerminalIsFinal ==
    [][\A t \in DOMAIN tasks : IsTerminal(t) =>
          /\ tasks'[t].status = tasks[t].status
          /\ tasks'[t].result = tasks[t].result
          /\ tasks'[t].assigned_agents = tasks[t].assigned_agents
          /\ get_task_status(t)' = get_task_status(t)]_vars

\* C4 witness: the first task failed in an agent call, and the consumer
\* has since routed and completed the second one.
TerminalIsFinalWitness ==
    /\ Len(tasks) = 2
    /\ tasks[1].status = "failed" /\ hist[1].nraised > 0
    /\ tasks[2].status = "completed"

\* C5: task.assigned_agents is assigned at most once, in the step that
\* takes the task from the queue and dispatches it; it is empty before,
\* never changes afterwards, and every task with an agent call has been
\* assigned exactly once -- on the fallback paths too.
AssignedWrittenOnce ==
    [][\A t \in DOMAIN tasks :
          /\ hist'[t].writes <= 1
          /\ hist'[t].writes = 0 => tasks'[t].assigned_agents = << >>
          /\ hist[t].writes = 1 =>
                 /\ hist'[t].writes = 1
                 /\ tasks'[t].assigned_agents = tasks[t].assigned_agents
          /\ (hist[t].writes = 0 /\ hist'[t].writes = 1) =>
                 /\ ~ WasRouted(t)
                 /\ tasks'[t].assigned_agents # << >>
          /\ \A k \in calls' : k.task = t => hist'[t].writes = 1]_vars

\* C5 witness: a task routed under consensus with fewer than three
\* suitable agents was dispatched by _parallel_routing and has completed.
AssignedWrittenOnceWitness ==
    \E t \in DOMAIN tasks :
        /\ hist[t].strategy = "consensus" /\ hist[t].via = "parallel"
        /\ hist[t].writes = 1
        /\ tasks[t].status = "completed"

\* C6: a task dispatched under SEQUENTIAL has one assigned agent, under
\* PARALLEL one to three, under CONSENSUS three to five, unless fewer than
\* three agents were suitable and _parallel_routing dispatched it (to one
\* or two).  A task for which routing found no agent is not dispatched:
\* its assigned_agents stays empty and it fails.
FanoutSizes ==
    \A t \in DOMAIN tasks :
        LET n == Len(tasks[t].assigned_agents)
            h == hist[t]
        IN /\ (WasRouted(t) /\ h.writes = 0) =>
                  n = 0 /\ tasks[t].status = "failed"
           /\ h.writes > 0 =>
               /\ h.strategy = "sequential" => n = 1
               /\ h.strategy = "parallel" => 1 <= n /\ n <= 3
               /\ h.strategy = "consensus" =>
                      \/ h.via = "consensus" /\ 3 <= n /\ n <= 5
                      \/ h.via = "parallel" /\ 1 <= n /\ n < 3

\* C6 witness: six agents are suitable and a consensus task went to five.
FanoutSizesWitness ==
    \E t \in DOMAIN tasks :
        /\ hist[t].strategy = "consensus" /\ hist[t].via = "consensus"
        /\ hist[t].available = 6
        /\ Len(tasks[t].assigned_agents) = 5

\* C7: a task routed while no agent was available (none registered, or
\* every one unavailable or at full load) is failed, has no result, and no
\* agent call was made for it.
NoAgentNoCall ==
    \A t \in DOMAIN tasks :
        (WasRouted(t) /\ hist[t].available = 0) =>
            /\ tasks[t].status = "failed"
            /\ tasks[t].result.kind = "None"
            /\ hist[t].ncalls = 0

\* C8: tasks are routed in the order of their submission (task ids count
\* submissions): a routed task has every earlier task routed before it.
FifoRouting ==
    \A a, b \in DOMAIN tasks :
        (a < b /\ WasRouted(b)) => WasRouted(a)

\* C8 witness: a NORMAL task was submitted before a CRITICAL one and both
\* have been routed.
FifoRoutingWitness ==
    /\ Len(tasks) = 2
    /\ tasks[1].priority = PriorityNormal
    /\ tasks[2].priority = PriorityCritical
    /\ WasRouted(1) /\ WasRouted(2)

ConsensusIsFirstMostFrequent ==
    LET r == consensus_in
        out == consensus_out
        occ(x) == Cardinality({j \in 1..Len(r) : Str(r[j]) = Str(x)})
        first(x) == CHOOSE i \in 1..Len(r) :
                        /\ Str(r[i]) = Str(x)
                        /\ \A j \in 1..(i - 1) : Str(r[j]) # Str(x)
    IN (out.kind # "not called" /\ r # << >>) =>
           /\ \E i \in 1..Len(r) : r[i] = out
           /\ \A j \in 1..Len(r) : occ(r[j]) <= occ(out)
           /\ \A j \in 1..Len(r) : occ(r[j]) = occ(out) => first(out) <= j
           /\ out = r[first(out)]
           /\ [i \in 1..Len(r) |-> r[i].text] = <<"A", "A", "B", "A", "C">>
                  => out.text = "A"

\* C10 witness: B and A both occur twice, B first, and B was returned.
ConsensusWitness ==
    /\ [i \in 1..Len(consensus_in) |-> consensus_in[i].text]
           = <<"B", "A", "A", "B">>
    /\ consensus_out.kind = "str" /\ consensus_out.text = "B"

\* the sum of the keyword weights of a text, plus the length bonus, in
\* tenths
RECURSIVE WeightSum(_)
WeightSum(keywords) ==
    IF keywords = << >> THEN 0
    ELSE complexity_keywords[Head(keywords)] + WeightSum(Tail(keywords))

TotalScore(text) ==
    WeightSum(text.keywords)
        + (IF WordCount(text) > 20 THEN 10 ELSE 0)

\* C11: the tier is SIMPLE for a total score <= 2.0, MODERATE for <= 4.0,
\* COMPLEX for <= 6.0 and VERY_COMPLEX above, the total score being the sum
\* of the keyword weights of the words plus 1.0 for more than 20 words; a
\* keyword-free text of at most 20 words is SIMPLE.
TierFromScore ==
    analysis_out.kind = "analysis" =>
        LET score == TotalScore(text_in)
            level == analysis_out.complexity_level
        IN /\ level = (IF score <= 20 THEN "simple"
                       ELSE IF score <= 40 THEN "moderate"
                       ELSE IF score <= 60 THEN "complex"
                       ELSE "very_complex")
           /\ (text_in.keywords = << >> /\ WordCount(text_in) <= 20)
                  => level = "simple"

\* the i-th strategy of the cascade returned a successful result
Succeeded(i) == cascade_in[i] # Raised /\ cascade_in[i].success

\* the results the awaited strategies returned without success, in order
FailuresReturned ==
    SelectSeq(cascade_in, LAMBDA o : o # Raised /\ ~ o.success)

\* C12: ADAPTIVE attempts HYBRID, then PARALLEL, then SEQUENTIAL, and starts
\* no strategy after one that succeeded; it returns success exactly when
\* one of the three succeeded, and strategy_used is ADAPTIVE in every case:
\* when none succeeded the last failure an attempt returned comes back
\* relabelled (a failure made by ADAPTIVE itself when all three raised).
AdaptiveCascade ==
    cascade_out.kind \in {"trying", "returned"} =>
        LET tried == cascade_out.tried IN
        /\ tried = SubSeq(strategies_to_try, 1, Len(tried))
        /\ tried # << >>
        /\ \A i \in 1..(Len(tried) - 1) : ~ Succeeded(i)
        /\ cascade_out.kind = "trying" => ~ Succeeded(Len(tried))
        /\ cascade_out.kind = "returned" =>
               /\ cascade_out.result.strategy_used = "adaptive"
               /\ cascade_out.result.success
                      <=> \E i \in 1..3 : Succeeded(i)
               /\ cascade_out.result.success => Succeeded(Len(tried))
               /\ ~ cascade_out.result.success =>
                      /\ tried = <<"hybrid", "parallel", "sequential">>
                      /\ IF FailuresReturned = << >>
                         THEN cascade_out.result.steps_completed = 0
                         ELSE cascade_out.result =
                                  [Last(FailuresReturned)
                                       EXCEPT !.strategy_used = "adaptive"]

\* HYBRID and PARALLEL failed, SEQUENTIAL succeeded, ADAPTIVE returned
AdaptiveCascadeWitness ==
    /\ cascade_out.kind = "returned"
    /\ cascade_in[1] # Raised /\ ~ cascade_in[1].success
    /\ cascade_in[2] # Raised /\ ~ cascade_in[2].success
    /\ Succeeded(3)
    /\ cascade_out.tried = <<"hybrid", "parallel", "sequential">>
    /\ cascade_out.result.success
    /\ cascade_out.result.strategy_used = "adaptive"

\* agents that are available, below max_load and, when the task lists
\* specializations, share one with it
Eligible(t) ==
    { a \in DOMAIN agents :
          /\ agents[a].availability
          /\ agents[a].current_load < agents[a].max_load
          /\ \/ tasks[t].specializations = {}
             \/ tasks[t].specializations \cap agents[a].specializations # {} }

\* 1 + average skill match of agent a for task t, times the number of
\* required skills and 100 * 100; 1 when the task requires no skills
SkillFactor(a, t) ==
    LET req == tasks[t].skills
        match(s) == IF s \in DOMAIN agents[a].skills
                    THEN agents[a].skills[s] * req[s] ELSE 0
        RECURSIVE total(_)
        total(S) == IF S = {} THEN 0
                    ELSE LET s == CHOOSE x \in S : TRUE
                         IN match(s) + total(S \ {s})
    IN IF DOMAIN req = {} THEN 1
       ELSE Cardinality(DOMAIN req) * 100 * 100 + total(DOMAIN req)

\* score(b) <= score(a) for performance_score * (1 - current_load/max_load)
\* * (1 + average skill match), both sides times max_load of a and of b
ScoreAtMost(b, a, t) ==
    agents[b].performance_score * (agents[b].max_load - agents[b].current_load)
        * SkillFactor(b, t) * agents[a].max_load
    <= agents[a].performance_score
           * (agents[a].max_load - agents[a].current_load)
           * SkillFactor(a, t) * agents[b].max_load

\* C13: when ADAPTIVE routes a task that has eligible agents, it starts
\* exactly one agent call, on an eligible agent whose score
\* performance_score * (1 - current_load/max_load) * (1 + average skill
\* match) no eligible agent exceeds, and assigns the task to it alone; so of
\* two eligible agents with the same share of load, scores 0.9 and 0.5, and
\* no required skills, the 0.9 agent is chosen.
AdaptivePicksTopScore ==
    [][\A t \in DOMAIN tasks :
          (hist[t].via = "none" /\ hist'[t].via = "adaptive"
               /\ Eligible(t) # {}) =>
              \E a \in Eligible(t) :
                  /\ tasks'[t].assigned_agents = <<a>>
                  /\ \A b \in Eligible(t) : ScoreAtMost(b, a, t)
                  /\ hist'[t].ncalls = 1
                  /\ \E k \in calls' :
                         /\ calls' = calls \cup {k}
                         /\ k \notin calls
                         /\ k.task = t /\ k.agent = a
                  /\ \A b \in Eligible(t) :
                         (/\ Eligible(t) = {a, b}
                          /\ tasks[t].skills = << >>
                          /\ agents[a].current_load * agents[b].max_load
                                 = agents[b].current_load * agents[a].max_load
                          /\ agents[b].performance_score = 90)
                             => agents[a].performance_score # 50]_vars

\* two "executor" agents with scores 0.9 and 0.5, neither loaded; a task
\* for "executor" without required skills is in flight on the 0.9 agent
AdaptivePicksTopScoreWitness ==
    \E t \in DOMAIN tasks : \E a, b \in DOMAIN agents :
        /\ hist[t].via = "adaptive"
        /\ tasks[t].specializations = {"executor"}
        /\ tasks[t].skills = << >>
        /\ tasks[t].assigned_agents = <<a>>
        /\ \E k \in calls : k.task = t /\ k.agent = a
        /\ agents[a].performance_score = 90
        /\ agents[b].performance_score = 50
        /\ "executor" \in agents[a].specializations
        /\ "executor" \in agents[b].specializations
        /\ hist[t].load_before[a] = 0 /\ hist[t].load_before[b] = 0

\* a call of one of the task's agents has been started and has not ended
InFlight(t) == \E k \in calls : k.task = t

\* C14: the status get_task_status returns follows pending -> assigned ->
\* completed or failed: while agent calls of a task are in flight the
\* status is "assigned", and a task becomes completed from "assigned" only.
StatusFollowsLifecycle ==
    [][\A t \in DOMAIN tasks :
          /\ InFlight(t)' => get_task_status(t).status' = "assigned"
          /\ (tasks[t].status # "completed"
                  /\ tasks'[t].status = "completed")
                 => get_task_status(t).status = "assigned"]_vars

\* C15: get_task_status of a submitted task returns its status and its
\* assigned_agents at every stage, and its result once it has completed.
StatusReportsAssignedAgents ==
    \A t \in DOMAIN tasks :
        LET r == get_task_status(t) IN
        /\ "status" \in DOMAIN r
        /\ r.status = tasks[t].status
        /\ "assigned_agents" \in DOMAIN r
        /\ r.assigned_agents = tasks[t].assigned_agents
        /\ tasks[t].status = "completed" =>
               /\ "result" \in DOMAIN r
               /\ r.result = tasks[t].result

\* C16: a registration with max_load <= 0 fails and leaves the registry as
\* it was, so every registered agent has a positive max_load.
RegistryHasPositiveMaxLoad ==
    \A a \in DOMAIN agents : agents[a].max_load > 0

\* r lists exactly the agents eligible for task t, by performance_score *
\* (1 - current_load/max_load) descending, equal ranks in registration
\* order (agent ids count registrations)
IsRankedEligible(r, t) ==
    LET rank_num(a) == agents[a].performance_score
                           * (agents[a].max_load - agents[a].current_load)
    IN /\ SeqToSet(r) = Eligible(t)
       /\ Len(r) = Cardinality(Eligible(t))
       /\ \A i, j \in 1..Len(r) :
              i < j =>
                  \/ rank_num(r[i]) * agents[r[j]].max_load
                         > rank_num(r[j]) * agents[r[i]].max_load
                  \/ /\ rank_num(r[i]) * agents[r[j]].max_load
                            = rank_num(r[j]) * agents[r[i]].max_load
                     /\ r[i] < r[j]

\* C18: the Task Router returns exactly the agents that are available,
\* below max_load and (when the task lists specializations) share one with
\* the task, ordered by performance_score * (1 - current_load/max_load)
\* descending, agents of equal rank in registration order.
RouterReturnsRankedEligible ==
    \A t \in DOMAIN tasks : IsRankedEligible(route(t), t)

\* C17: after any execute_task calls, returned, raised or still running,
\* successful_tasks <= total_tasks and total_tasks is the number of calls
\* made, and the success rate get_success_rate returns is within [0, 1].
SuccessRateWithinBounds ==
    /\ coact.successful_tasks <= coact.total_tasks
    /\ coact.total_tasks = Len(executions)
    /\ coact.successful_tasks >= 0
    /\ get_success_rate.den > 0
    /\ 0 <= get_success_rate.num
    /\ get_success_rate.num <= get_success_rate.den

\* a successful call, an unsuccessful one and a raising one have ended and
\* the background processor has computed the rate 1/3
SuccessRateWitness ==
    /\ Len(executions) = 3
    /\ \E i, j, k \in DOMAIN executions :
           /\ executions[i].pc = "returned" /\ executions[i].result.success
           /\ executions[j].pc = "returned" /\ ~ executions[j].result.success
           /\ executions[k].pc = "raised"
    /\ get_success_rate = [num |-> 1, den |-> 3]

\* C19: a HYBRID execution returns success exactly when at least 60% of
\* its steps reported success, a PARALLEL execution exactly when at least
\* 70% did; a step that reported failure does not count.
ThresholdsCountSuccessfulSteps ==
    \A n \in DOMAIN executions :
        executions[n].pc = "returned" =>
            LET result == executions[n].result IN
            /\ executions[n].strategy = "hybrid" =>
                   (result.success
                        <=> result.reported * 10 >= result.total_steps * 6)
            /\ executions[n].strategy = "parallel" =>
                   (result.success
                        <=> result.reported * 10 >= result.total_steps * 7)

\* C20: every execute_task call adds exactly 1 to "used" of the strategy
\* it used and, only when it succeeded, exactly 1 to "success" of that
\* strategy, and changes no other strategy counter; so success <= used
\* for every strategy and no reported success_rate exceeds 1.
StrategyStatsCountTasks ==
    /\ \A s \in ExecutionStrategies :
           LET returned == {n \in DOMAIN executions :
                               /\ executions[n].pc = "returned"
                               /\ executions[n].strategy = s}
               started == {n \in DOMAIN executions :
                              executions[n].strategy = s}
           IN /\ coact.strategy_stats[s].used = Cardinality(started)
              /\ coact.strategy_stats[s].success =
                     Cardinality({n \in returned :
                                      executions[n].result.success})
    /\ \A s \in ExecutionStrategies :
           /\ coact.strategy_stats[s].success <= coact.strategy_stats[s].used
           /\ StrategySuccessRate(s).num <= StrategySuccessRate(s).den

\* the eligible agents of task t that advertise coordinator or general
EligibleCoordinators(t) ==
    {a \in Eligible(t) : \/ "coordinator" \in agents[a].specializations
                         \/ "general" \in agents[a].specializations}

\* C21: a task routed under HIERARCHICAL goes to the highest-ranked of its
\* eligible agents that advertise coordinator or general (equal ranks in
\* registration order), and to no other agent; when there is no such agent
\* the task is handled by the ADAPTIVE routing.
HierarchicalPicksTopCoordinator ==
    [][\A t \in DOMAIN tasks :
           (hist[t].strategy = "none" /\ hist'[t].strategy = "hierarchical")
               => IF EligibleCoordinators(t) # {}
                  THEN \E a \in EligibleCoordinators(t) :
                           /\ tasks'[t].assigned_agents = <<a>>
                           /\ hist'[t].via = "hierarchical"
                           /\ \A b \in EligibleCoordinators(t) :
                                  /\ ~RankGreater(b, a)
                                  /\ RankEqual(b, a) => a <= b
                  ELSE hist'[t].via = "adaptive"]_vars

\* C22: the routing step of a COMPETITIVE task with eligible agents hands
\* one call for each of the top min(3, len) agents to the event loop; the
\* step that ends the task takes the result of a call that is done and
\* cancels every call of the task still in flight; and no call of a task
\* routed under another strategy is ever cancelled.
CompetitiveRacesTopThree ==
    [][/\ \A t \in DOMAIN tasks :
              (hist[t].via = "none" /\ hist'[t].via = "competitive"
                   /\ Eligible(t) # {})
                  => LET top == Take(_find_suitable_agents(t), CompetitiveFanout)
                     IN /\ tasks'[t].assigned_agents = top
                        /\ {k.agent : k \in {c \in calls' : c.task = t}}
                               = SeqToSet(top)
                        /\ Cardinality({c \in calls' : c.task = t})
                               = Len(top)
       /\ \A t \in DOMAIN tasks :
              (hist[t].via = "competitive" /\ InFlight(t)
                   /\ ~IsTerminal(t) /\ tasks'[t].status \in TerminalStatuses)
                  => /\ \E d \in calls :
                            /\ d.task = t /\ d.st \in {"ok", "failed"}
                            /\ d.st = "ok"
                                   => tasks'[t].result
                                          = AgentResult(d.agent, <<t>>)
                     /\ \A k \in calls' : k.task = t => k.st = "cancelling"
                     /\ \A k \in calls :
                            (k.task = t /\ k.st = "running")
                                => [k EXCEPT !.st = "cancelling"] \in calls'
       /\ \A k \in calls' :
              k.st = "cancelling" => hist'[k.task].via = "competitive"]_vars

\* C23: a COLLABORATIVE task with eligible agents gets one subtask call for
\* each of the top N = min(4, number of eligible agents) agents; when all
\* calls are over the task is completed with a merged result that holds
\* the result of every successful subtask and whose count is their number;
\* it is failed, without result, only when no subtask succeeded.
CollaborativeMergesSuccesses ==
    [][/\ \A t \in DOMAIN tasks :
              (hist[t].via = "none" /\ hist'[t].via = "collaborative"
                   /\ Eligible(t) # {})
                  => LET n == Min(CollaborativeFanout, Cardinality(Eligible(t)))
                         top == Take(_find_suitable_agents(t), n)
                         mine == {k \in calls' : k.task = t}
                     IN /\ Len(top) = n
                        /\ tasks'[t].assigned_agents = top
                        /\ Cardinality(mine) = n
                        /\ \A i \in 1..n :
                               \E k \in mine : k.idx = i /\ k.agent = top[i]
       /\ \A t \in DOMAIN tasks :
              (hist[t].via = "collaborative" /\ InFlight(t)
                   /\ ~IsTerminal(t) /\ tasks'[t].status \in TerminalStatuses)
                  => LET ok == {k \in calls : k.task = t /\ k.st = "ok"}
                         r == tasks'[t].result
                     IN IF ok = {}
                        THEN /\ tasks'[t].status = "failed"
                             /\ r = NoResult
                        ELSE /\ tasks'[t].status = "completed"
                             /\ r.kind = "merged"
                             /\ r.count = Cardinality(ok)
                             /\ Len(r.results) = r.count
                             /\ {x.agent_id : x \in SeqToSet(r.results)}
                                    = {k.agent : k \in ok}
                             /\ {x.task_id : x \in SeqToSet(r.results)}
                                    = {<<t, k.idx - 1>> : k \in ok}]_vars

\* C23 witness: four of six eligible agents got a subtask, one subtask
\* raised, and the task is completed with a merged result of count 3.
CollaborativeMergesSuccessesWitness ==
    \E t \in DOMAIN tasks :
        /\ hist[t].via = "collaborative"
        /\ hist[t].available = MaxPoolAgents
        /\ hist[t].ncalls = CollaborativeFanout
        /\ hist[t].nraised = 1
        /\ tasks[t].status = "completed"
        /\ tasks[t].result.kind = "merged"
        /\ tasks[t].result.count = CollaborativeFanout - 1

\* C24: a task handled by the consensus routing for which fewer than
\* three of the dispatched agents returned a result is failed and has no
\* result.
ConsensusNeedsThreeResponses ==
    \A t \in DOMAIN tasks :
        (hist[t].via = "consensus" /\ IsTerminal(t)
             /\ hist[t].ncalls - hist[t].nraised < ConsensusMinAgents)
            => /\ tasks[t].status = "failed"
               /\ tasks[t].result = NoResult

\* the routing methods that wait with asyncio.gather
GatherVias == {"parallel", "consensus", "collaborative"}

\* C25: a task handled by the PARALLEL, CONSENSUS or COLLABORATIVE routing
\* gets a terminal status only in a step before which every call
\* dispatched for it, one per assigned agent, has returned or raised; no
\* call of such a task is ever cancelled, and none is in flight once the
\* task is terminal.
GatherWaitsForAll ==
    [][/\ \A t \in DOMAIN tasks :
              (hist[t].via \in GatherVias /\ ~IsTerminal(t)
                   /\ tasks'[t].status \in TerminalStatuses)
                  => LET mine == {k \in calls : k.task = t}
                     IN /\ Cardinality(mine) = Len(tasks[t].assigned_agents)
                        /\ hist[t].ncalls = Cardinality(mine)
                        /\ \A k \in mine : k.st \in {"ok", "failed"}
       /\ \A k \in calls' :
              hist'[k.task].via \in GatherVias
                  => /\ k.st # "cancelling"
                     /\ tasks'[k.task].status \notin TerminalStatuses]_vars

\* C25 witness: a consensus task went to five agents, one of the five
\* calls raised, and the task is terminal with no call left.
GatherWaitsForAllWitness ==
    \E t \in DOMAIN tasks :
        /\ hist[t].via = "consensus"
        /\ hist[t].ncalls = ConsensusFanout
        /\ hist[t].nraised = 1
        /\ IsTerminal(t)
        /\ ~InFlight(t)

\* C26: whatever calls of initialize, submit_task and register_agent were
\* made, at most one routing is under way at a time (at most one consumer
\* is between taking a task and the return of its routing), and all agent
\* calls in flight belong to one task.
OneTaskAtATime ==
    /\ \A c1, c2 \in DOMAIN consumers :
           (consumers[c1].pc \notin {"get", "exited"}
                /\ consumers[c2].pc \notin {"get", "exited"}) => c1 = c2
    /\ \A k1, k2 \in calls : k1.task = k2.task

\* C27: once initialize was called, every submitted task is eventually
\* taken from the queue and routed, and eventually has status completed or
\* failed, provided the consumer loop keeps running and every agent call
\* that was started returns, raises or is cancelled.
TasksEventuallyTerminal ==
    \A t \in 1..MaxLiveTasks :
        (t \in DOMAIN tasks /\ consumers # << >>)
            ~> (t \in DOMAIN tasks /\ WasRouted(t) /\ IsTerminal(t))

\* C27 witness: the consumer is busy with the first task, whose call is in
\* flight, while the second task waits in the queue.
TasksEventuallyTerminalWitness ==
    /\ consumers # << >>
    /\ Len(tasks) = 2
    /\ InFlight(1)
    /\ ~IsTerminal(1)
    /\ task_queue = <<2>>
    /\ ~WasRouted(2)

\* C28: once shutdown() was called, active_tasks eventually is empty and
\* shutdown() has returned, whatever was submitted before the call.
ShutdownTerminates ==
    (shutdown_pc # "none") ~> (shutdown_pc = "done" /\ active_tasks = {})

\* C29: every submitted task is in exactly one of active_tasks and
\* completed_tasks, occurs at most once in completed_tasks, and is in
\* completed_tasks exactly when its status is completed or failed; so no
\* task counted by len(self.active_tasks) of get_status is terminal.
ActiveCompletedPartition ==
    \A t \in DOMAIN tasks :
        /\ (t \in active_tasks) # (t \in SeqToSet(completed_tasks))
        /\ Cardinality({i \in DOMAIN completed_tasks :
                            completed_tasks[i] = t}) <= 1
        /\ (t \in SeqToSet(completed_tasks)) <=> IsTerminal(t)

\* C30: every result execute_task returned has 0 <= steps_completed <=
\* total_steps, and its total_steps is the estimated_steps of the
\* complexity analysis of the task, which is at least 3.
StepsWithinTotal ==
    \A n \in DOMAIN executions :
        executions[n].pc = "returned"
            => LET result == executions[n].result
               IN /\ 0 <= result.steps_completed
                  /\ result.steps_completed <= result.total_steps
                  /\ result.total_steps = executions[n].total_steps
                  /\ result.total_steps >= MinEstimatedSteps
====
